---- MODULE Spec2Model ----
(***************************************************************************)
(* Model of the AtmosphereData badge application in its two variants:      *)
(*   "aq"  user_apps/airquality/atmosdata.py                               *)
(*   "fw"  firmware/badge/apps/atmosdata.py                                *)
(* One AtmosphereData object is modelled.  The variant and the I2C bus     *)
(* scan are chosen in Init, which is the state right after __init__.       *)
(* Every handler the scheduler or the network layer can call (start,       *)
(* receive_message, run_foreground, run_background, switch_to_foreground,  *)
(* switch_to_background) is one action.                                    *)
(*                                                                         *)
(* Python values are modelled as follows.  co2_measurement is a sequence   *)
(* of numbers.  An element of particle_measurement is either a bare number *)
(* (Num) or a [label, value] pair (Pair): the code subscripts the elements *)
(* ([i][1]), which raises TypeError on a bare number.  Sequences are       *)
(* 1-based here and 0-based in Python; Slice and HasIndex take Python      *)
(* indices.  float(x) of a number keeps its numeric value.                 *)
(***************************************************************************)
EXTENDS Integers, Sequences, FiniteSets, TLC

\* ---------------------------------------------------------------- bounds
MaxReading == 2
MaxPeriods == 1

\* ------------------------------------------------------------- constants
scd30_address == 97
sps30_address == 105
sensor_refresh_interval_ms == 5000
ATMOS_PORT == 25
ATMOS_VERSION == 1

Variants == {"aq", "fw"}

\* ------------------------------------------------------ Python helpers
Min(a, b) == IF a < b THEN a ELSE b

\* s[lo:hi] with 0-based, non-negative Python bounds
Slice(s, lo, hi) ==
  LET h == Min(hi, Len(s))
  IN  IF h <= lo THEN <<>> ELSE [i \in 1..(h - lo) |-> s[lo + i]]

\* s[i] does not raise IndexError (0-based index i)
HasIndex(s, i) == i < Len(s)

Pair(l, x) == [pair |-> TRUE, label |-> l, v |-> x]
Num(x) == [pair |-> FALSE, label |-> "", v |-> x]

\* utime.ticks_ms() counts milliseconds modulo this period (2^30 in
\* MicroPython) and starts again from 0
TICKS_PERIOD == 2^30

\* what utime.ticks_ms() returns at the time t (ms since power-up)
ticks_ms(t) == t % TICKS_PERIOD

\* ------------------------------------------------------------ the inputs
\* the times (ms since power-up) at which ticks may run
Times ==
  {0, 2000, 5001} \cup {5001 + k * sensor_refresh_interval_ms + d : k \in 1..MaxPeriods, d \in {0, 1}}

\* what scd30.read_measurement() returns: (co2 ppm, deg C, %rh)
CO2Reading(b) == <<400 + b, 20 + b, 40 + b>>

\* what sps30.read_measurement() returns: a list of [label, value] entries
ParticleReading(b) == [i \in 1..11 |-> Pair("nc", 100 * b + i)]

SensorOutcomes ==
  {[k |-> "notready", b |-> 0], [k |-> "readyfault", b |-> 0], [k |-> "readfault", b |-> 0]}
    \cup {[k |-> "ok", b |-> b] : b \in 1..MaxReading}

\* the payload a sender lays out for the given version: version, three
\* CO2 fields, five particle fields
FullPayload(ver, b) ==
  <<ver, 400 + b, 20 + b, 40 + b, 100 * b + 5, 100 * b + 6, 100 * b + 7, 100 * b + 8, 100 * b + 9>>

\* inbound payloads: every prefix (the empty one included) of a full
\* version-1 payload, and a version-0 payload in its own four-field layout
\* and in the nine-field layout
Payloads ==
  {Slice(FullPayload(ATMOS_VERSION, MaxReading), 0, n) : n \in 0..9}
    \cup {Slice(FullPayload(0, MaxReading), 0, n) : n \in {4, 9}}

\* inbound frames: every payload on the Atmos port; on the port of another
\* protocol a full version-1 payload and an empty one
Frames ==
  {[port |-> ATMOS_PORT, payload |-> pl] : pl \in Payloads}
    \cup {[port |-> ATMOS_PORT + 1, payload |-> pl] :
            pl \in {FullPayload(ATMOS_VERSION, MaxReading), <<>>}}

\* bus scans: each sensor present or not, and a bus with only a foreign device
Scans == SUBSET {scd30_address, sps30_address} \cup {{scd30_address - 1}}

NotReady == [k |-> "notready", b |-> 0]

NoFrame == [port |-> 0, payload |-> <<>>]

\* ----------------------------------------------------------------- state
VARIABLES
  variant,                 \* which source file the object is built from
  scan,                    \* badge.sao_i2c.scan() as seen by __init__
  scd30, sps30,            \* TRUE: handle object, FALSE: None
  producing_data,
  co2_measurement,
  particle_measurement,
  screen_has_latest_data,
  last_transmission,
  current_line_labels,     \* number of labels in the list
  p,                       \* TRUE: a Page, FALSE: None / unset
  started,                 \* start() has run
  registered,              \* register_receiver(ATMOS_PROTOCOL, ...) was called
  foreground,              \* BaseApp: the app is the foreground app
  clock,                   \* time (ms since power-up) of the latest utime.ticks_ms() call
  \* observations of the last handler call
  op,                      \* its name
  sent,                    \* payloads handed to badge.lora.send that returned
  io,                      \* sensor calls it made
  raised,                  \* an exception left the handler
  writes,                  \* label set_text calls it made
  prevTx,                  \* <<tick time>> of the latest broadcast before it, <<>> if none
  newData,                 \* a sensor read returned a reading
  fault,                   \* poll_data ended in its except branch
  rx,                      \* the frame passed to receive_message
  faulted                  \* the sensor whose call raised in poll_data, or "none"

vars == <<variant, scan, scd30, sps30, producing_data, co2_measurement,
          particle_measurement, screen_has_latest_data, last_transmission,
          current_line_labels, p, started, registered, foreground, clock,
          op, sent, io, raised, writes, prevTx, newData, fault, rx, faulted>>

role == <<variant, scan, scd30, sps30, producing_data>>

\* ---------------------------------------------------------- construction
\* mutant: the role follows the CO2 sensor alone
AQ_producing_scd30_only(has_scd30, has_sps30) == has_scd30

AQ_producing(has_scd30, has_sps30) == has_scd30 \/ has_sps30

FW_producing(has_scd30, has_sps30) == has_scd30

\* eleven bare numbers instead of [label, value] pairs
AQ_init_particles_bare == [i \in 1..11 |-> Num(-1)]

AQ_init_particles == [i \in 1..11 |-> Pair("", -1)]

FW_init_particles == [i \in 1..5 |-> Num(-1)]

Init ==
  /\ variant \in Variants
  /\ scan \in Scans
  /\ scd30 = (scd30_address \in scan)
  /\ sps30 = (sps30_address \in scan)
  /\ producing_data = IF variant = "aq" THEN AQ_producing(scd30, sps30)
                                        ELSE FW_producing(scd30, sps30)
  /\ co2_measurement = <<-1, -1, -1>>
  /\ particle_measurement = IF variant = "aq" THEN AQ_init_particles ELSE FW_init_particles
  /\ screen_has_latest_data = TRUE
  /\ last_transmission = 0
  /\ current_line_labels = 0
  /\ p = FALSE
  /\ started = FALSE
  /\ registered = FALSE
  /\ foreground = FALSE
  /\ clock = 0
  /\ op = "init"
  /\ sent = <<>>
  /\ io = {}
  /\ raised = FALSE
  /\ writes = 0
  /\ prevTx = <<>>
  /\ newData = FALSE
  /\ fault = FALSE
  /\ rx = NoFrame
  /\ faulted = "none"

\* ------------------------------------------------------------- poll_data
\* mutant: the holdoff comparison is not strict
HoldoffElapsed_ge(now, last) == (now - last) >= sensor_refresh_interval_ms

\* the rate limiter's comparison
HoldoffElapsed(now, last) == (now - last) > sensor_refresh_interval_ms

\* the payload tuple can be built: co2_measurement[0..2] and
\* particle_measurement[4..8][1] all exist
PayloadBuildable(co2, part) ==
  /\ HasIndex(co2, 2)
  /\ HasIndex(part, 8)
  /\ \A i \in 5..9 : part[i].pair

TxPayload(co2, part) ==
  <<ATMOS_VERSION, co2[1], co2[2], co2[3],
    part[5].v, part[6].v, part[7].v, part[8].v, part[9].v>>

PollStart ==
  [flag |-> screen_has_latest_data, co2 |-> co2_measurement,
   part |-> particle_measurement, last |-> last_transmission,
   tnd |-> FALSE, new |-> FALSE, exc |-> FALSE, io |-> {}, sent |-> <<>>,
   faulted |-> "none"]

PollScd30(st, so) ==
  IF st.exc \/ ~scd30 THEN st
  ELSE IF so.k = "readyfault" THEN
    [st EXCEPT !.exc = TRUE, !.faulted = "scd30", !.io = @ \cup {"scd30.ready"}]
  ELSE IF so.k = "notready" THEN
    [st EXCEPT !.io = @ \cup {"scd30.ready"}]
  ELSE IF so.k = "readfault" THEN
    [st EXCEPT !.flag = FALSE, !.tnd = TRUE, !.exc = TRUE, !.faulted = "scd30",
               !.io = @ \cup {"scd30.ready", "scd30.read"}]
  ELSE
    [st EXCEPT !.flag = FALSE, !.tnd = TRUE, !.new = TRUE, !.co2 = CO2Reading(so.b),
               !.io = @ \cup {"scd30.ready", "scd30.read"}]

PollSps30(st, po) ==
  IF st.exc \/ ~sps30 THEN st
  ELSE IF po.k = "readyfault" THEN
    [st EXCEPT !.exc = TRUE, !.faulted = "sps30", !.io = @ \cup {"sps30.ready"}]
  ELSE IF po.k = "notready" THEN
    [st EXCEPT !.io = @ \cup {"sps30.ready"}]
  ELSE IF po.k = "readfault" THEN
    [st EXCEPT !.flag = FALSE, !.tnd = TRUE, !.exc = TRUE, !.faulted = "sps30",
               !.io = @ \cup {"sps30.ready", "sps30.read"}]
  ELSE
    [st EXCEPT !.flag = FALSE, !.tnd = TRUE, !.new = TRUE, !.part = ParticleReading(po.b),
               !.io = @ \cup {"sps30.ready", "sps30.read"}]

\* the holdoff test passes and the payload tuple is built
SendReached(st, now) ==
  ~st.exc /\ st.tnd /\ HoldoffElapsed(now, st.last) /\ PayloadBuildable(st.co2, st.part)

\* sends the CO2 triple the cache held when the tick began
PollTransmit_stale_co2(st, now, sendOk) ==
  IF st.exc \/ ~(st.tnd /\ HoldoffElapsed(now, st.last)) THEN st
  ELSE IF ~PayloadBuildable(st.co2, st.part) THEN [st EXCEPT !.exc = TRUE]
  ELSE IF ~sendOk THEN [st EXCEPT !.exc = TRUE]
  ELSE [st EXCEPT !.sent = <<TxPayload(co2_measurement, st.part)>>, !.last = now]

\* records the transmission time although lora.send raised
PollTransmit_marks_failed_send(st, now, sendOk) ==
  IF st.exc \/ ~(st.tnd /\ HoldoffElapsed(now, st.last)) THEN st
  ELSE IF ~PayloadBuildable(st.co2, st.part) THEN [st EXCEPT !.exc = TRUE]
  ELSE IF ~sendOk THEN [st EXCEPT !.exc = TRUE, !.last = now]
  ELSE [st EXCEPT !.sent = <<TxPayload(st.co2, st.part)>>, !.last = now]

PollTransmit(st, now, sendOk) ==
  IF st.exc \/ ~(st.tnd /\ HoldoffElapsed(now, st.last)) THEN st
  ELSE IF ~PayloadBuildable(st.co2, st.part) THEN [st EXCEPT !.exc = TRUE]
  ELSE IF ~sendOk THEN [st EXCEPT !.exc = TRUE]
  ELSE [st EXCEPT !.sent = <<TxPayload(st.co2, st.part)>>, !.last = now]

\* the whole of poll_data; the bare except swallows every exception
poll_data(now, so, po, sendOk) ==
  IF ~producing_data THEN PollStart
  ELSE PollTransmit(PollSps30(PollScd30(PollStart, so), po), now, sendOk)

\* tick time of the latest broadcast, once the coming handler call has begun
NextPrevTx == IF sent # <<>> THEN <<clock>> ELSE prevTx

\* ------------------------------------------------------------------ start
\* mutant: start() registers whatever the role
AQ_registers_always == TRUE

\* the condition under which start() calls register_receiver
AQ_registers == ~producing_data

FW_registers == TRUE

AQ_start ==
  /\ variant = "aq"
  /\ ~started
  /\ started' = TRUE
  /\ registered' = AQ_registers
  /\ op' = "start"
  /\ rx' = NoFrame
  /\ sent' = <<>> /\ io' = {} /\ raised' = FALSE /\ writes' = 0
  /\ prevTx' = NextPrevTx
  /\ newData' = FALSE /\ fault' = FALSE /\ faulted' = "none"
  /\ UNCHANGED <<role, co2_measurement, particle_measurement,
                 screen_has_latest_data, last_transmission,
                 current_line_labels, p, foreground, clock>>

FW_start ==
  /\ variant = "fw"
  /\ ~started
  /\ started' = TRUE
  /\ registered' = FW_registers
  /\ op' = "start"
  /\ rx' = NoFrame
  /\ sent' = <<>> /\ io' = {} /\ raised' = FALSE /\ writes' = 0
  /\ prevTx' = NextPrevTx
  /\ newData' = FALSE /\ fault' = FALSE /\ faulted' = "none"
  /\ UNCHANGED <<role, co2_measurement, particle_measurement,
                 screen_has_latest_data, last_transmission,
                 current_line_labels, p, foreground, clock>>

\* -------------------------------------------------------- receive_message
NumSeq(s) == [i \in 1..Len(s) |-> Num(s[i])]

\* message.payload[0] raises IndexError
AQ_receive_raises(port, payload) ==
  port = ATMOS_PORT /\ ~HasIndex(payload, 0)

\* mutant: the version field is not compared
AQ_receive_accepts_any_version(port, payload) ==
  port = ATMOS_PORT /\ HasIndex(payload, 0)

AQ_receive_accepts(port, payload) ==
  port = ATMOS_PORT /\ HasIndex(payload, 0) /\ payload[1] = ATMOS_VERSION

FW_receive_raises(port, payload) ==
  ~producing_data /\ port = ATMOS_PORT /\ ~HasIndex(payload, 0)

\* mutant: the role is not consulted
FW_receive_accepts_any_role(port, payload) ==
  port = ATMOS_PORT /\ HasIndex(payload, 0) /\ payload[1] = ATMOS_VERSION

FW_receive_accepts(port, payload) ==
  ~producing_data /\ port = ATMOS_PORT /\ HasIndex(payload, 0) /\ payload[1] = ATMOS_VERSION

\* stores an accepted frame without marking the screen stale
ReceiveStore_keeps_flag(accepts, payload) ==
  /\ co2_measurement' = IF accepts THEN Slice(payload, 1, 3) ELSE co2_measurement
  /\ particle_measurement' =
       IF accepts THEN NumSeq(Slice(payload, 4, 8)) ELSE particle_measurement
  /\ screen_has_latest_data' = screen_has_latest_data

\* the body of the if: identical in both variants
ReceiveStore(accepts, payload) ==
  /\ co2_measurement' = IF accepts THEN Slice(payload, 1, 3) ELSE co2_measurement
  /\ particle_measurement' =
       IF accepts THEN NumSeq(Slice(payload, 4, 8)) ELSE particle_measurement
  /\ screen_has_latest_data' = IF accepts THEN FALSE ELSE screen_has_latest_data

\* the network layer calls the callback installed by register_receiver
AQ_receive_message ==
  /\ variant = "aq"
  /\ started /\ registered
  /\ \E message \in Frames :
       /\ ReceiveStore(AQ_receive_accepts(message.port, message.payload), message.payload)
       /\ raised' = AQ_receive_raises(message.port, message.payload)
       /\ rx' = message
  /\ op' = "receive_message"
  /\ sent' = <<>> /\ io' = {} /\ writes' = 0
  /\ prevTx' = NextPrevTx
  /\ newData' = FALSE /\ fault' = FALSE /\ faulted' = "none"
  /\ UNCHANGED <<role, last_transmission, current_line_labels, p, started,
                 registered, foreground, clock>>

FW_receive_message ==
  /\ variant = "fw"
  /\ started /\ registered
  /\ \E message \in Frames :
       /\ ReceiveStore(FW_receive_accepts(message.port, message.payload), message.payload)
       /\ raised' = FW_receive_raises(message.port, message.payload)
       /\ rx' = message
  /\ op' = "receive_message"
  /\ sent' = <<>> /\ io' = {} /\ writes' = 0
  /\ prevTx' = NextPrevTx
  /\ newData' = FALSE /\ fault' = FALSE /\ faulted' = "none"
  /\ UNCHANGED <<role, last_transmission, current_line_labels, p, started,
                 registered, foreground, clock>>

\* --------------------------------------------------------- refresh_labels
\* the three CO2 lines can be formatted
CO2Lines(co2) == HasIndex(co2, 2)

\* the five particle lines can be formatted: particle_measurement[4..8][1]
\* and [0] all exist
ParticleLines(part) == HasIndex(part, 8) /\ \A i \in 5..9 : part[i].pair

AQ_refresh_labels(flag, co2, part, labels) ==
  IF flag THEN [flag |-> TRUE, writes |-> 0, exc |-> FALSE]
  ELSE
    LET co2ok == (producing_data /\ ~scd30) \/ CO2Lines(co2)
        partok == (producing_data /\ ~sps30) \/ ParticleLines(part)
        ntexts == 3 + 4 + (IF producing_data /\ ~sps30 THEN 3 ELSE 5) + 2
    IN  IF co2ok /\ partok
        THEN [flag |-> TRUE, writes |-> Min(ntexts, labels), exc |-> FALSE]
        ELSE [flag |-> TRUE, writes |-> 0, exc |-> TRUE]

\* the old labels are deleted and the list emptied before compose_lines runs
FW_refresh_labels(co2, part) ==
  IF CO2Lines(co2) /\ ParticleLines(part)
  THEN [labels |-> 8, writes |-> 8, exc |-> FALSE]
  ELSE [labels |-> 0, writes |-> 0, exc |-> TRUE]

\* ------------------------------------------------------------------ ticks
\* the inputs a tick can observe: a sensor that is never polled has no
\* outcome, the clock is read only by a Producer, and send has an outcome
\* only in a tick that calls it
Scd30Inputs == IF producing_data /\ scd30 THEN SensorOutcomes ELSE {NotReady}

Sps30Inputs == IF producing_data /\ sps30 THEN SensorOutcomes ELSE {NotReady}

ClockInputs == IF producing_data THEN {t \in Times : t >= clock} ELSE {clock}

SendInputs(now, so, po) ==
  IF producing_data /\ SendReached(PollSps30(PollScd30(PollStart, so), po), ticks_ms(now))
  THEN BOOLEAN ELSE {TRUE}

\* one call of run_foreground at the time now, with the given sensor outcomes,
\* send outcome and F5 key state
AQ_run_foreground_step(now, so, po, sendOk, f5) ==
  /\ variant = "aq"
  /\ started /\ foreground
  /\ \E r \in {poll_data(ticks_ms(now), so, po, sendOk)} :
     \E rl \in {AQ_refresh_labels(r.flag, r.co2, r.part, current_line_labels)} :
     LET done == ~rl.exc /\ f5
     IN  /\ co2_measurement' = r.co2
         /\ particle_measurement' = r.part
         /\ last_transmission' = r.last
         /\ screen_has_latest_data' = rl.flag
         /\ current_line_labels' = IF done THEN 0 ELSE current_line_labels
         /\ p' = IF done THEN FALSE ELSE p
         /\ foreground' = ~done
         /\ sent' = r.sent
         /\ io' = r.io
         /\ raised' = rl.exc
         /\ writes' = rl.writes
         /\ newData' = r.new
         /\ fault' = r.exc
         /\ faulted' = r.faulted
         /\ clock' = now
  /\ op' = "run_foreground"
  /\ rx' = NoFrame
  /\ prevTx' = NextPrevTx
  /\ UNCHANGED <<role, started, registered>>

AQ_run_foreground ==
  /\ variant = "aq"
  /\ started /\ foreground
  /\ \E now \in ClockInputs, so \in Scd30Inputs, po \in Sps30Inputs, f5 \in BOOLEAN :
     \E sendOk \in SendInputs(now, so, po) :
       AQ_run_foreground_step(now, so, po, sendOk, f5)

FW_run_foreground_step(now, so, po, sendOk, f5) ==
  /\ variant = "fw"
  /\ started /\ foreground
  /\ \E r \in {IF producing_data THEN poll_data(ticks_ms(now), so, po, sendOk) ELSE PollStart} :
     \E rl \in {IF ~r.flag THEN FW_refresh_labels(r.co2, r.part)
                ELSE [labels |-> current_line_labels, writes |-> 0, exc |-> FALSE]} :
     LET done == ~rl.exc /\ f5
     IN  /\ co2_measurement' = r.co2
         /\ particle_measurement' = r.part
         /\ last_transmission' = r.last
         /\ screen_has_latest_data' = TRUE
         /\ current_line_labels' = IF done THEN 0 ELSE rl.labels
         /\ p' = IF done THEN FALSE ELSE p
         /\ foreground' = ~done
         /\ sent' = r.sent
         /\ io' = r.io
         /\ raised' = rl.exc
         /\ writes' = rl.writes
         /\ newData' = r.new
         /\ fault' = r.exc
         /\ faulted' = r.faulted
         /\ clock' = now
  /\ op' = "run_foreground"
  /\ rx' = NoFrame
  /\ prevTx' = NextPrevTx
  /\ UNCHANGED <<role, started, registered>>

FW_run_foreground ==
  /\ variant = "fw"
  /\ started /\ foreground
  /\ \E now \in ClockInputs, so \in Scd30Inputs, po \in Sps30Inputs, f5 \in BOOLEAN :
     \E sendOk \in SendInputs(now, so, po) :
       FW_run_foreground_step(now, so, po, sendOk, f5)

\* run_background is the same in both variants: poll_data returns at once
\* unless producing_data
run_background_step(now, so, po, sendOk) ==
  /\ started /\ ~foreground
  /\ \E r \in {poll_data(ticks_ms(now), so, po, sendOk)} :
         /\ co2_measurement' = r.co2
         /\ particle_measurement' = r.part
         /\ last_transmission' = r.last
         /\ screen_has_latest_data' = r.flag
         /\ sent' = r.sent
         /\ io' = r.io
         /\ newData' = r.new
         /\ fault' = r.exc
         /\ faulted' = r.faulted
         /\ clock' = now
  /\ op' = "run_background"
  /\ rx' = NoFrame
  /\ raised' = FALSE
  /\ writes' = 0
  /\ prevTx' = NextPrevTx
  /\ UNCHANGED <<role, current_line_labels, p, started, registered, foreground>>

run_background ==
  /\ started /\ ~foreground
  /\ \E now \in ClockInputs, so \in Scd30Inputs, po \in Sps30Inputs :
     \E sendOk \in SendInputs(now, so, po) :
       run_background_step(now, so, po, sendOk)

\* ------------------------------------------------------------ transitions
AQ_switch_to_foreground ==
  /\ variant = "aq"
  /\ started /\ ~foreground
  /\ \E rl \in {AQ_refresh_labels(FALSE, co2_measurement, particle_measurement, 14)} :
         /\ screen_has_latest_data' = rl.flag
         /\ raised' = rl.exc
         /\ writes' = rl.writes
  /\ foreground' = TRUE
  /\ p' = TRUE
  /\ current_line_labels' = 14
  /\ op' = "switch_to_foreground"
  /\ rx' = NoFrame
  /\ sent' = <<>> /\ io' = {}
  /\ prevTx' = NextPrevTx
  /\ newData' = FALSE /\ fault' = FALSE /\ faulted' = "none"
  /\ UNCHANGED <<role, co2_measurement, particle_measurement,
                 last_transmission, started, registered, clock>>

FW_switch_to_foreground ==
  /\ variant = "fw"
  /\ started /\ ~foreground
  /\ foreground' = TRUE
  /\ p' = TRUE
  /\ screen_has_latest_data' = FALSE
  /\ op' = "switch_to_foreground"
  /\ rx' = NoFrame
  /\ sent' = <<>> /\ io' = {} /\ raised' = FALSE /\ writes' = 0
  /\ prevTx' = NextPrevTx
  /\ newData' = FALSE /\ fault' = FALSE /\ faulted' = "none"
  /\ UNCHANGED <<role, co2_measurement, particle_measurement,
                 last_transmission, current_line_labels, started, registered,
                 clock>>

\* called from outside when another app is selected (the F5 path is part of
\* run_foreground); the same in both variants
switch_to_background ==
  /\ started /\ foreground
  /\ current_line_labels' = 0
  /\ p' = FALSE
  /\ foreground' = FALSE
  /\ op' = "switch_to_background"
  /\ rx' = NoFrame
  /\ sent' = <<>> /\ io' = {} /\ raised' = FALSE /\ writes' = 0
  /\ prevTx' = NextPrevTx
  /\ newData' = FALSE /\ fault' = FALSE /\ faulted' = "none"
  /\ UNCHANGED <<role, co2_measurement, particle_measurement,
                 screen_has_latest_data, last_transmission, started,
                 registered, clock>>

\* ---------------------------------------------------------- specification
Next ==
  \/ AQ_start
  \/ FW_start
  \/ AQ_receive_message
  \/ FW_receive_message
  \/ AQ_run_foreground
  \/ FW_run_foreground
  \/ run_background
  \/ AQ_switch_to_foreground
  \/ FW_switch_to_foreground
  \/ switch_to_background

Spec == Init /\ [][Next]_vars

\* ------------------------------------------------------------ userA.App
\* The single-sensor app of firmware/badge/apps/userA.py.  Its measurement
\* is held in co2_measurement (<<>> for None); it has no sps30 handle, no
\* producing_data, no particle cache, no labels and no last_transmission,
\* and reads no clock: those variables keep the values given here.
UA_Init ==
  /\ variant = "userA"
  /\ scan \in Scans
  /\ scd30 = (scd30_address \in scan)
  /\ sps30 = FALSE
  /\ producing_data = FALSE
  /\ co2_measurement = <<>>
  /\ particle_measurement = <<>>
  /\ screen_has_latest_data = TRUE
  /\ last_transmission = 0
  /\ current_line_labels = 0
  /\ p = FALSE
  /\ started = FALSE
  /\ registered = FALSE
  /\ foreground = FALSE
  /\ clock = 0
  /\ op = "init"
  /\ sent = <<>>
  /\ io = {}
  /\ raised = FALSE
  /\ writes = 0
  /\ prevTx = <<>>
  /\ newData = FALSE
  /\ fault = FALSE
  /\ rx = NoFrame
  /\ faulted = "none"

\* payload tuple with the fields out of order
UA_TxPayload_swapped(m) == <<0, m[2], m[1], m[3]>>

\* (int(0), float(m[0]), float(m[1]), float(m[2]))
UA_TxPayload(m) == <<0, m[1], m[2], m[3]>>

\* poll_data: one try block around readiness check, read and send
UA_poll_data(so, sendOk) ==
  IF ~scd30 THEN PollStart
  ELSE IF so.k = "readyfault" THEN
    [PollStart EXCEPT !.exc = TRUE, !.faulted = "scd30", !.io = {"scd30.ready"}]
  ELSE IF so.k = "notready" THEN
    [PollStart EXCEPT !.io = {"scd30.ready"}]
  ELSE IF so.k = "readfault" THEN
    [PollStart EXCEPT !.flag = FALSE, !.exc = TRUE, !.faulted = "scd30",
                      !.io = {"scd30.ready", "scd30.read"}]
  ELSE IF ~sendOk THEN
    [PollStart EXCEPT !.flag = FALSE, !.new = TRUE, !.co2 = CO2Reading(so.b),
                      !.exc = TRUE, !.io = {"scd30.ready", "scd30.read"}]
  ELSE
    [PollStart EXCEPT !.flag = FALSE, !.new = TRUE, !.co2 = CO2Reading(so.b),
                      !.sent = <<UA_TxPayload(CO2Reading(so.b))>>,
                      !.io = {"scd30.ready", "scd30.read"}]

UA_Scd30Inputs == IF scd30 THEN SensorOutcomes ELSE {NotReady}

\* lora.send is reached only after a successful read
UA_SendInputs(so) == IF scd30 /\ so.k = "ok" THEN BOOLEAN ELSE {TRUE}

UA_start ==
  /\ variant = "userA"
  /\ ~started
  /\ started' = TRUE
  /\ registered' = TRUE
  /\ op' = "start"
  /\ rx' = NoFrame
  /\ sent' = <<>> /\ io' = {} /\ raised' = FALSE /\ writes' = 0
  /\ prevTx' = NextPrevTx
  /\ newData' = FALSE /\ fault' = FALSE /\ faulted' = "none"
  /\ UNCHANGED <<role, co2_measurement, particle_measurement,
                 screen_has_latest_data, last_transmission,
                 current_line_labels, p, foreground, clock>>

\* receive_message only prints the frame
UA_receive_message ==
  /\ variant = "userA"
  /\ registered
  /\ \E f \in Frames : rx' = f
  /\ op' = "receive_message"
  /\ sent' = <<>> /\ io' = {} /\ raised' = FALSE /\ writes' = 0
  /\ prevTx' = NextPrevTx
  /\ newData' = FALSE /\ fault' = FALSE /\ faulted' = "none"
  /\ UNCHANGED <<role, co2_measurement, particle_measurement,
                 screen_has_latest_data, last_transmission,
                 current_line_labels, p, started, registered, foreground, clock>>

UA_run_foreground ==
  /\ variant = "userA"
  /\ started /\ foreground
  /\ \E so \in UA_Scd30Inputs, f5 \in BOOLEAN :
     \E sendOk \in UA_SendInputs(so) :
     \E r \in {UA_poll_data(so, sendOk)} :
         /\ co2_measurement' = r.co2
         /\ screen_has_latest_data' = IF scd30 THEN TRUE ELSE r.flag
         /\ writes' = IF scd30 /\ r.flag THEN 0 ELSE 1
         /\ sent' = r.sent
         /\ io' = r.io
         /\ newData' = r.new
         /\ fault' = r.exc
         /\ faulted' = r.faulted
         /\ p' = (p /\ ~f5)
         /\ foreground' = ~f5
  /\ op' = "run_foreground"
  /\ rx' = NoFrame
  /\ raised' = FALSE
  /\ prevTx' = NextPrevTx
  /\ UNCHANGED <<role, particle_measurement, last_transmission,
                 current_line_labels, started, registered, clock>>

UA_run_background ==
  /\ variant = "userA"
  /\ started /\ ~foreground
  /\ \E so \in UA_Scd30Inputs :
     \E sendOk \in UA_SendInputs(so) :
     \E r \in {UA_poll_data(so, sendOk)} :
         /\ co2_measurement' = r.co2
         /\ screen_has_latest_data' = r.flag
         /\ sent' = r.sent
         /\ io' = r.io
         /\ newData' = r.new
         /\ fault' = r.exc
         /\ faulted' = r.faulted
  /\ op' = "run_background"
  /\ rx' = NoFrame
  /\ raised' = FALSE /\ writes' = 0
  /\ prevTx' = NextPrevTx
  /\ UNCHANGED <<role, particle_measurement, last_transmission,
                 current_line_labels, p, started, registered, foreground, clock>>

UA_switch_to_foreground ==
  /\ variant = "userA"
  /\ started /\ ~foreground
  /\ foreground' = TRUE
  /\ p' = TRUE
  /\ screen_has_latest_data' = FALSE
  /\ op' = "switch_to_foreground"
  /\ rx' = NoFrame
  /\ sent' = <<>> /\ io' = {} /\ raised' = FALSE /\ writes' = 0
  /\ prevTx' = NextPrevTx
  /\ newData' = FALSE /\ fault' = FALSE /\ faulted' = "none"
  /\ UNCHANGED <<role, co2_measurement, particle_measurement,
                 last_transmission, current_line_labels, started, registered,
                 clock>>

UA_switch_to_background ==
  /\ variant = "userA"
  /\ started /\ foreground
  /\ p' = FALSE
  /\ foreground' = FALSE
  /\ op' = "switch_to_background"
  /\ rx' = NoFrame
  /\ sent' = <<>> /\ io' = {} /\ raised' = FALSE /\ writes' = 0
  /\ prevTx' = NextPrevTx
  /\ newData' = FALSE /\ fault' = FALSE /\ faulted' = "none"
  /\ UNCHANGED <<role, co2_measurement, particle_measurement,
                 screen_has_latest_data, last_transmission,
                 current_line_labels, started, registered, clock>>

UA_Next ==
  \/ UA_start
  \/ UA_receive_message
  \/ UA_run_foreground
  \/ UA_run_background
  \/ UA_switch_to_foreground
  \/ UA_switch_to_background

SpecUserA == UA_Init /\ [][UA_Next]_vars

\* --------------------------------------------- single-sensor Producers
\* the largest clock value of the model
MaxTime == CHOOSE t \in Times : \A u \in Times : u <= t

\* clock values of a tick at which utime.ticks_ms() has advanced (at MaxTime
\* the model's clock stands still)
LaterTimes == {t \in Times : t > clock} \cup (IF clock = MaxTime THEN {clock} ELSE {})

\* a tick, foreground or background, at an advanced clock value in which
\* every owned sensor is ready and read successfully and lora.send returns
GoodTick ==
  \E now \in LaterTimes, b \in 1..MaxReading, f5 \in BOOLEAN :
    \E so \in {IF scd30 THEN [k |-> "ok", b |-> b] ELSE NotReady},
       po \in {IF sps30 THEN [k |-> "ok", b |-> b] ELSE NotReady} :
      \/ AQ_run_foreground_step(now, so, po, TRUE, f5)
      \/ FW_run_foreground_step(now, so, po, TRUE, f5)
      \/ run_background_step(now, so, po, TRUE)

\* airquality nodes that found exactly one of the two sensors
AQ_SoloInit ==
  /\ Init
  /\ variant = "aq"
  /\ scan \in {{scd30_address}, {sps30_address}}

\* the handlers that can run on an airquality Producer (it never registers
\* receive_message)
AQ_ProducerNext ==
  \/ AQ_start
  \/ AQ_run_foreground
  \/ run_background
  \/ AQ_switch_to_foreground
  \/ switch_to_background

\* the node is started, and good ticks keep occurring
SpecAqProducer ==
  AQ_SoloInit /\ [][AQ_ProducerNext]_vars /\ WF_vars(AQ_start) /\ WF_vars(GoodTick)

\* firmware nodes that found the CO2 sensor only
FW_SoloInit ==
  /\ Init
  /\ variant = "fw"
  /\ scan = {scd30_address}

FW_ProducerNext ==
  \/ FW_start
  \/ FW_receive_message
  \/ FW_run_foreground
  \/ run_background
  \/ FW_switch_to_foreground
  \/ switch_to_background

SpecFwProducer ==
  FW_SoloInit /\ [][FW_ProducerNext]_vars /\ WF_vars(FW_start) /\ WF_vars(GoodTick)

\* ------------------------------------------- ticks around the wraparound
\* tick times on both sides of the moment utime.ticks_ms() starts again
\* from 0: one shortly before it, the others after it
WrapTimes ==
  {0, TICKS_PERIOD - 1000, TICKS_PERIOD + 4500}
    \cup {TICKS_PERIOD + 4500 + k * sensor_refresh_interval_ms : k \in 1..MaxPeriods}

WrapClockInputs == {t \in WrapTimes : t >= clock}

Wrap_run_foreground ==
  /\ variant = "aq"
  /\ started /\ foreground
  /\ \E now \in WrapClockInputs, so \in Scd30Inputs, po \in Sps30Inputs, f5 \in BOOLEAN :
     \E sendOk \in SendInputs(now, so, po) :
       AQ_run_foreground_step(now, so, po, sendOk, f5)

Wrap_run_background ==
  /\ started /\ ~foreground
  /\ \E now \in WrapClockInputs, so \in Scd30Inputs, po \in Sps30Inputs :
     \E sendOk \in SendInputs(now, so, po) :
       run_background_step(now, so, po, sendOk)

WrapNext ==
  \/ AQ_start
  \/ Wrap_run_foreground
  \/ Wrap_run_background
  \/ AQ_switch_to_foreground
  \/ switch_to_background

\* a single-sensor airquality Producer running across the wraparound
SpecWrap == AQ_SoloInit /\ [][WrapNext]_vars

\* ----------------------------------------------------------------- claims
Tick == op \in {"run_foreground", "run_background"}

Cache == <<co2_measurement, particle_measurement>>

\* C1: a tick sends at most one frame, and a frame is sent only at a tick
\* time more than sensor_refresh_interval_ms after the tick time of the
\* broadcast before it.
C1_HoldoffBetweenBroadcasts ==
  /\ Len(sent) <= 1
  /\ (sent # <<>> /\ prevTx # <<>>) => (clock - prevTx[1]) > sensor_refresh_interval_ms

\* a second broadcast has been sent
C1_Witness == sent # <<>> /\ prevTx # <<>>

\* C2: on a Producer a tick at t=0 with a new reading and no earlier
\* broadcast transmits, a tick at t=2000 with a new reading after a
\* broadcast at t=0 does not, and a tick at t=5001 with a new reading after
\* a broadcast at t=0 does (ticks whose poll ended in the except branch
\* aside).
C2_FirstReadingNotHeldOff ==
  (Tick /\ producing_data /\ newData /\ ~fault) =>
    /\ (clock = 0 /\ prevTx = <<>>) => sent # <<>>
    /\ (clock = 2000 /\ prevTx = <<0>>) => sent = <<>>
    /\ (clock = 5001 /\ prevTx = <<0>>) => sent # <<>>

\* C3: in the airquality variant producing_data holds iff one of the two
\* sensor addresses is in the bus scan, and each handle exists iff its
\* address is in the scan.
C3_AqProducerIffSensorOnBus ==
  variant = "aq" =>
    /\ producing_data <=> (scd30_address \in scan \/ sps30_address \in scan)
    /\ scd30 <=> scd30_address \in scan
    /\ sps30 <=> sps30_address \in scan

\* a started airquality node with only the particulate sensor is a Producer
C3_Witness ==
  variant = "aq" /\ scan = {sps30_address} /\ producing_data /\ ~scd30 /\ started

\* C4: in the firmware variant producing_data holds iff at least one sensor
\* handle exists.
C4_FwProducerIffAnyHandle ==
  variant = "fw" => (producing_data <=> (scd30 \/ sps30))

\* C5: in the airquality variant the receive callback is installed iff
\* start() has run on a Consumer; a Producer is never subscribed.
C5_AqSubscribesIffConsumer ==
  variant = "aq" => (registered <=> (started /\ ~producing_data))

\* a started airquality Producer, not subscribed
C5_Witness == variant = "aq" /\ started /\ producing_data /\ ~registered

\* C6: in the firmware variant a Producer never has the receive callback
\* installed.
C6_FwProducerNeverSubscribes ==
  variant = "fw" => (registered => ~producing_data)

\* C7: producing_data never changes; a handler call that changes the cache
\* is a tick on a Producer and a receive_message on a Consumer; a handler
\* call on a Consumer makes no sensor call.
C7_SingleCacheWriter ==
  [][ /\ producing_data' = producing_data
      /\ (Cache' # Cache) =>
           IF producing_data THEN op' \in {"run_foreground", "run_background"}
                             ELSE op' = "receive_message"
      /\ ~producing_data => io' = {} ]_vars

\* a Producer holding a sensor reading was handed a matching full frame
C7_Witness ==
  /\ op = "receive_message" /\ producing_data
  /\ rx.port = ATMOS_PORT /\ Len(rx.payload) = 9 /\ rx.payload[1] = ATMOS_VERSION
  /\ co2_measurement = CO2Reading(1)

\* C8: a receive_message call with a frame of another port, or with a
\* leading version field other than ATMOS_VERSION, leaves co2_measurement,
\* particle_measurement and screen_has_latest_data unchanged.
C8_ForeignFrameDiscarded ==
  [][ (/\ op' = "receive_message"
       /\ \/ rx'.port # ATMOS_PORT
          \/ (HasIndex(rx'.payload, 0) /\ rx'.payload[1] # ATMOS_VERSION))
      => UNCHANGED <<co2_measurement, particle_measurement, screen_has_latest_data>> ]_vars

\* a Consumer was handed a full-length frame of version 0 on the Atmos port
C8_Witness ==
  /\ op = "receive_message" /\ ~producing_data
  /\ rx.port = ATMOS_PORT /\ Len(rx.payload) = 9 /\ rx.payload[1] # ATMOS_VERSION

\* C9: after a Consumer's receive_message took a full frame of its own
\* version on the Atmos port, co2_measurement holds payload fields 1..3,
\* particle_measurement holds the five values of fields 4..8 where the
\* render and transmit steps read them, and the dirty flag is set.
C9_FrameRoundTrip ==
  (/\ op = "receive_message" /\ ~producing_data
   /\ rx.port = ATMOS_PORT /\ Len(rx.payload) = 9 /\ rx.payload[1] = ATMOS_VERSION)
  => /\ co2_measurement = Slice(rx.payload, 1, 4)
     /\ ParticleLines(particle_measurement)
     /\ \A i \in 5..9 : particle_measurement[i].v = rx.payload[i]
     /\ ~screen_has_latest_data

\* C10: receive_message never raises, and a frame with fewer than the nine
\* fields of the layout leaves co2_measurement, particle_measurement and
\* screen_has_latest_data unchanged.
C10_ReceiveInfallible ==
  [][ op' = "receive_message" =>
        /\ ~raised'
        /\ Len(rx'.payload) < 9 =>
             UNCHANGED <<co2_measurement, particle_measurement, screen_has_latest_data>> ]_vars

\* C11: no call of run_foreground (refresh_labels included), run_background
\* or switch_to_foreground raises, in either AtmosphereData variant.
C11_NoHandlerRaises ==
  op \in {"run_foreground", "run_background", "switch_to_foreground"} => ~raised

\* C12: a fault of a sensor call stays inside poll_data (the tick goes on to
\* its render step, so a raising tick is one whose render could not format
\* the cache), and the sensor whose call raised in one tick is polled again
\* in the tick that follows it.
C12_FaultSwallowedAndRepolled ==
  [][ /\ (Tick' /\ raised' /\ faulted' # "none")
           => (foreground /\ ~(CO2Lines(co2_measurement') /\ ParticleLines(particle_measurement')))
      /\ (Tick /\ Tick' /\ faulted = "scd30") => "scd30.ready" \in io'
      /\ (Tick /\ Tick' /\ faulted = "sps30") => "sps30.ready" \in io' ]_vars

\* the outcomes of a sensor call that raises
FaultOutcomes == {so \in SensorOutcomes : so.k \in {"readyfault", "readfault"}}

\* what poll_data leaves behind: cache, dirty flag, last_transmission, frames
PollEffect(r) == <<r.co2, r.part, r.flag, r.last, r.sent>>

\* C13: on a started node, a tick in which a call of an owned sensor raises
\* leaves co2_measurement, particle_measurement, screen_has_latest_data and
\* last_transmission, and the frames sent, as the same tick with that sensor
\* not ready leaves them, whatever the other sensor does.
C13_FaultActsAsNoData ==
  (started /\ producing_data) =>
    \A now \in ClockInputs, f \in FaultOutcomes :
      /\ scd30 => \A po \in Sps30Inputs :
           PollEffect(poll_data(ticks_ms(now), f, po, TRUE))
             = PollEffect(poll_data(ticks_ms(now), NotReady, po, TRUE))
      /\ sps30 => \A so \in Scd30Inputs :
           PollEffect(poll_data(ticks_ms(now), so, f, TRUE))
             = PollEffect(poll_data(ticks_ms(now), so, NotReady, TRUE))

\* C14: a tick sends at most one frame, and the frame is the version byte,
\* the CO2 triple and the five particle values that the cache holds when the
\* tick has finished polling; nothing older than the cache is ever sent.
C14_FrameIsCurrentCache ==
  sent # <<>> =>
    /\ Len(sent) = 1
    /\ PayloadBuildable(co2_measurement, particle_measurement)
    /\ sent[1] = TxPayload(co2_measurement, particle_measurement)

\* a later broadcast of a two-sensor node that carries the second CO2 reading
\* next to particle values of the first particle reading
C14_Witness ==
  /\ sent # <<>> /\ prevTx # <<>> /\ newData
  /\ sent[1][2] = CO2Reading(2)[1]
  /\ sent[1][5] = ParticleReading(1)[5].v

\* the latest handler call wrote the cache to the display
RenderedLast ==
  foreground /\ op \in {"switch_to_foreground", "run_foreground"} /\ writes > 0

\* C15: a foreground tick that directly follows a render writes the display
\* iff its own poll cached a new reading (an inbound frame would be a call in
\* between), and a tick that writes the display leaves the dirty flag cleared.
C15_RenderOncePerUpdate ==
  [][ (RenderedLast /\ op' = "run_foreground")
        => /\ (writes' > 0) <=> newData'
           /\ (writes' > 0) => screen_has_latest_data' ]_vars

\* C16: a step that stays in Background writes nothing to the display and
\* creates no label or Page; when it changes the cache the dirty flag is set
\* afterwards, and a set dirty flag stays set.
C16_BackgroundNeverRenders ==
  [][ (~foreground /\ ~foreground')
        => /\ writes' = 0
           /\ UNCHANGED <<current_line_labels, p>>
           /\ (Cache' # Cache) => ~screen_has_latest_data'
           /\ ~screen_has_latest_data => ~screen_has_latest_data' ]_vars

\* a background tick cached a new reading: the flag is set, nothing rendered
C16_Witness ==
  /\ op = "run_background" /\ ~foreground /\ newData
  /\ ~screen_has_latest_data /\ writes = 0 /\ ~p

\* C17: switch_to_foreground allocates the Page and marks the cache dirty;
\* the entry leads to exactly one render of the unchanged cache (inside
\* switch_to_foreground in the airquality variant, in the first foreground
\* tick in the firmware variant); every step out of Foreground leaves
\* p = None and current_line_labels empty.
C17_AllocateOnEnterReleaseOnExit ==
  [][ /\ op' = "switch_to_foreground"
           => /\ p' /\ foreground'
              /\ variant = "aq" => (writes' > 0 /\ screen_has_latest_data')
              /\ variant = "fw" => ~screen_has_latest_data'
      /\ (op = "switch_to_foreground" /\ op' = "run_foreground" /\ ~newData')
           => (writes' > 0) <=> (variant = "fw")
      /\ (foreground /\ ~foreground')
           => (~p' /\ current_line_labels' = 0) ]_vars

\* C18: in a tick of userA.App, a successful read of the present, ready
\* sensor overwrites measurement with a reading, sets the dirty flag (a
\* foreground tick renders it at once) and, lora.send returning, broadcasts
\* exactly one frame (0, co2, temperature, humidity) of that measurement;
\* with the sensor absent, not ready or faulting no frame is sent.
C18_UserAOneFrameFromReading ==
  (variant = "userA" /\ Tick) =>
    /\ newData => /\ scd30 /\ "scd30.read" \in io
                  /\ \E b \in 1..MaxReading : co2_measurement = CO2Reading(b)
                  /\ op = "run_background" => ~screen_has_latest_data
                  /\ op = "run_foreground" => writes = 1
    /\ (newData /\ ~fault) =>
         sent = << <<0, co2_measurement[1], co2_measurement[2], co2_measurement[3]>> >>
    /\ (~newData \/ fault) => sent = <<>>
    /\ (~scd30 \/ faulted # "none" \/ "scd30.read" \notin io) => ~newData

\* a background tick read the sensor and broadcast the reading
C18_Witness ==
  /\ variant = "userA" /\ op = "run_background"
  /\ newData /\ ~fault /\ sent # <<>> /\ ~screen_has_latest_data

\* C19: on an airquality Producer that owns one sensor, with ticks, clock
\* and successful reads continuing, a frame is eventually broadcast, and
\* whenever the clock can still move more than one holdoff past
\* last_transmission another broadcast follows (last_transmission = 0 at
\* startup gives the first one).
C19_AqSoloProducerBroadcasts ==
  (sent = <<>> /\ last_transmission + sensor_refresh_interval_ms < MaxTime)
    ~> (sent # <<>>)

\* a single-sensor airquality Producer sent a frame after an earlier one
C19_Witness ==
  /\ variant = "aq" /\ producing_data /\ (scd30 # sps30)
  /\ Tick /\ sent # <<>> /\ prevTx # <<>>

\* C20: a firmware Producer that owns the CO2 sensor only eventually
\* broadcasts a frame, with ticks, clock and successful reads continuing.
C20_FwCo2ProducerBroadcasts ==
  <>(variant = "fw" /\ scd30 /\ ~sps30 /\ sent # <<>>)

\* C21: every tick of a Producer polls each sensor it owns, whatever the
\* other sensor did, and a tick in which one sensor faulted while the other
\* gave a new reading still broadcasts when the holdoff has elapsed.
C21_FaultIsolatedPerSensor ==
  (Tick /\ producing_data) =>
    /\ scd30 => "scd30.ready" \in io
    /\ sps30 => "sps30.ready" \in io
    /\ (/\ newData /\ faulted # "none"
        /\ HoldoffElapsed(ticks_ms(clock), last_transmission)
        /\ PayloadBuildable(co2_measurement, particle_measurement))
         => sent # <<>>

\* C22: last_transmission changes only in a tick whose lora.send returned,
\* and becomes the ticks_ms value of that tick; every tick that sent a
\* frame sets it so, and every other handler call leaves it unchanged.
C22_LastTransmissionOnlyOnSend ==
  [][ /\ (last_transmission' # last_transmission) => (Tick' /\ sent' # <<>>)
      /\ (sent' # <<>>) => (Tick' /\ last_transmission' = ticks_ms(clock'))
      /\ (sent' = <<>>) => UNCHANGED last_transmission ]_vars

\* a tick past the holdoff cached a new reading, lora.send raised, and
\* last_transmission still holds the time of the earlier broadcast
C22_Witness ==
  /\ Tick /\ newData /\ fault /\ faulted = "none" /\ sent = <<>>
  /\ prevTx # <<>> /\ last_transmission = ticks_ms(prevTx[1])
  /\ HoldoffElapsed(ticks_ms(clock), last_transmission)

\* C23: a Producer's tick with a new reading and a working radio, more than
\* 5000 ms after the tick of its latest broadcast, broadcasts, also when
\* utime.ticks_ms() started again from 0 in between.
C23_HoldoffAcrossWraparound ==
  (/\ Tick /\ producing_data /\ newData /\ ~fault
   /\ prevTx # <<>> /\ clock - prevTx[1] > sensor_refresh_interval_ms)
    => sent # <<>>

====
